---- MODULE Spec2Model ----
(***************************************************************************)
(* mutable_batch::writer::Writer -- the row-append transaction over a      *)
(* MutableBatch.  State: the batch (columns, column_names, row_count),     *)
(* the fields of the one Writer that may borrow it, and a few history      *)
(* variables used only to state properties.                                *)
(*                                                                         *)
(* Column positions are 0-based as in the source; TLA+ sequences are       *)
(* 1-based, so column position i is columns[i + 1] and row r of a column   *)
(* is valid[r + 1] / data[r + 1].                                          *)
(***************************************************************************)
EXTENDS Integers, Sequences, FiniteSets, TLC

VARIABLES
    columns,        \* batch.columns: sequence of Column records
    column_names,   \* batch.column_names: name -> column position
    row_count,      \* batch.row_count
    pc,             \* "idle": no Writer; "live": a Writer borrows the batch;
                    \* "panicked": a Writer method panicked, the Writer is unwinding
    statistics,     \* Writer.statistics: sequence of <<col_idx, Statistics>>
    initial_rows,   \* Writer.initial_rows
    to_insert,      \* Writer.to_insert
    success,        \* Writer.success
    result,         \* history: what the last operation returned
    pre,            \* history: the batch as it was when the Writer was constructed
    calls,          \* history: number of write calls made on the current Writer
    rolled_back,    \* history: the last drop ran the truncation branch
    errors,         \* history: <<column position, error>> of the recoverable
                    \* errors returned by the current Writer's write calls
    log,            \* history: the inputs of the last write call, in the
                    \* specifications that record them
    discarded       \* history: <<column position, code, value>> of the
                    \* Dictionary entries that the Writer dropped last had
                    \* inserted, kept until the next Writer ends

vars == <<columns, column_names, row_count, pc, statistics, initial_rows,
          to_insert, success, result, pre, calls, rolled_back, errors, log,
          discarded>>

batchVars == <<columns, column_names, row_count>>
writerVars == <<statistics, initial_rows, to_insert, success>>

----------------------------------------------------------------------------
(* Bounds of the model *)

\* largest to_insert of a Writer in Spec
MaxInsert == 2
\* largest batch.row_count reached in Spec
MaxRows == 2
\* values are 1..NumVals (numbers, or the NumVals distinct non-empty strings)
NumVals == 2
\* write calls per Writer in Spec
MaxCalls == 2
\* largest batch.row_count and write calls per Writer in SpecTag
TagMaxRows == 3
TagMaxCalls == 3
\* largest to_insert and row_count, and longest value sequence, in SpecMask
MaskRows == 5
MaskMaxVals == 3
\* largest initial_rows of a Writer in SpecMask
MaskInitial == 1
\* entries of the local value table, largest batch.row_count and write calls
\* per Writer in SpecDict
DictTableLen == 10
DictMaxRows == 3
DictMaxCalls == 2

Names == {"a"}
OtherNames == {"b"}
Vals == 1..NumVals

----------------------------------------------------------------------------
(* Option<T>: None is <<>>, Some(v) is <<v>> *)

None == <<>>
Some(v) == <<v>>
IsSome(o) == Len(o) = 1
Unwrap(o) == o[1]

Min2(a, b) == IF a <= b THEN a ELSE b
Max2(a, b) == IF a >= b THEN a ELSE b

\* the largest element of a non-empty sequence of integers (Iterator::max)
SeqMax(s) == CHOOSE m \in {s[i] : i \in DOMAIN s} : \A i \in DOMAIN s : s[i] <= m

\* Vec::resize(new_len, value): truncates or pads with value
resize(v, new_len, value) ==
    IF new_len <= Len(v)
    THEN SubSeq(v, 1, new_len)
    ELSE v \o [i \in 1..(new_len - Len(v)) |-> value]

\* Vec::truncate(len) / BitSet::truncate(len): no effect when already shorter
truncate(v, len) == IF len < Len(v) THEN SubSeq(v, 1, len) ELSE v

\* n copies of value
Repeat(value, n) == [i \in 1..n |-> value]

----------------------------------------------------------------------------
(* Collaborators of the Writer that live outside writer.rs: the bitmap,     *)
(* the Dictionary, the per-column Statistics and the Column itself.         *)
(* A BitSet is a sequence of 0/1; a value store is a sequence of integers.  *)

\* the sentinel code of a null row in a tag column's code array
INVALID_DID == -1

\* bits per mask byte (valid_mask: Option<&[u8]>); masks here are one byte
MaskBits == 8

RECURSIVE Pow2(_)
Pow2(n) == IF n = 0 THEN 1 ELSE 2 * Pow2(n - 1)

\* bit i (0-based, least significant first) of a mask byte
Bit(mask, i) == (mask \div Pow2(i)) % 2

\* BitSet::append_bits(count, bytes): the first count bits of the mask
append_bits(bits, count, mask) == bits \o [i \in 1..count |-> Bit(mask, i - 1)]

\* BitSet::append_set(count)
append_set(bits, count) == bits \o Repeat(1, count)

\* BitSet::append_unset(count)
append_unset(bits, count) == bits \o Repeat(0, count)

\* iter_set_positions(bytes): the offsets of the set bits, increasing
iter_set_positions(mask) ==
    SelectSeq([i \in 1..MaskBits |-> i - 1], LAMBDA p : Bit(mask, p) = 1)

\* Iterator::take_while(|idx| idx < bound)
take_while_lt(s, bound) ==
    LET k == CHOOSE k \in 0..Len(s) :
                 /\ \A i \in 1..k : s[i] < bound
                 /\ (k = Len(s) \/ s[k + 1] >= bound)
    IN  SubSeq(s, 1, k)

\* StatValues::new_empty()
new_empty ==
    [min |-> None, max |-> None, total_count |-> 0, null_count |-> 0,
     distinct_count |-> None]

\* StatValues::update(value): fold one non-null value
update(stats, value) ==
    [stats EXCEPT
        !.min = IF IsSome(@) THEN Some(Min2(Unwrap(@), value)) ELSE Some(value),
        !.max = IF IsSome(@) THEN Some(Max2(Unwrap(@), value)) ELSE Some(value),
        !.total_count = @ + 1]

\* StatValues::update_for_nulls(count)
update_for_nulls(stats, count) == [stats EXCEPT !.null_count = @ + count]

\* StatValues::update_from(other): merge another aggregate of the same type
update_from(stats, other) ==
    [stats EXCEPT
        !.min = IF ~IsSome(other.min) THEN @
                ELSE IF IsSome(@) THEN Some(Min2(Unwrap(@), Unwrap(other.min)))
                ELSE other.min,
        !.max = IF ~IsSome(other.max) THEN @
                ELSE IF IsSome(@) THEN Some(Max2(Unwrap(@), Unwrap(other.max)))
                ELSE other.max,
        !.total_count = @ + other.total_count,
        !.null_count = @ + other.null_count]

\* NonZeroU64::new(n)
NonZeroU64_new(n) == IF n = 0 THEN None ELSE Some(n)

\* the code of a value present in a Dictionary
code_of(dict, value) == (CHOOSE i \in DOMAIN dict : dict[i] = value) - 1

\* Dictionary::lookup_value_or_insert(value): <<dictionary after, code>>
lookup_value_or_insert(dict, value) ==
    IF \E i \in DOMAIN dict : dict[i] = value
    THEN <<dict, code_of(dict, value)>>
    ELSE <<Append(dict, value), Len(dict)>>

\* Dictionary::truncate(id): discard every entry whose code is larger than id
dict_truncate(dict, id) == IF id + 1 < Len(dict) THEN SubSeq(dict, 1, id + 1) ELSE dict

\* Dictionary::clear()
dict_clear(dict) == <<>>

\* the ColumnData variant that stores a semantic type
variant_of(influx_type) ==
    CASE influx_type = "Float" -> "F64"
      [] influx_type = "Integer" -> "I64"
      [] influx_type = "UInteger" -> "U64"
      [] influx_type = "Boolean" -> "Bool"
      [] influx_type = "String" -> "String"
      [] influx_type = "Tag" -> "Tag"
      [] influx_type = "Timestamp" -> "I64"

\* the entry of a value store at a null row
null_entry(variant) == IF variant = "Tag" THEN INVALID_DID ELSE 0

\* Column::new(row_count, influx_type): row_count rows, all null
Column_new(rows, influx_type) ==
    [influx_type |-> influx_type,
     valid |-> Repeat(0, rows),
     variant |-> variant_of(influx_type),
     data |-> Repeat(null_entry(variant_of(influx_type)), rows),
     dict |-> <<>>,
     stats |-> update_for_nulls(new_empty, rows)]

\* Column::push_nulls_to_len(len): pad validity and value store with nulls
push_nulls_to_len(col, len) ==
    IF Len(col.valid) = len THEN col
    ELSE LET delta == len - Len(col.valid)
         IN  [col EXCEPT
                 !.valid = append_unset(@, delta),
                 !.data = @ \o Repeat(null_entry(col.variant), delta),
                 !.stats = update_for_nulls(@, delta)]

----------------------------------------------------------------------------
(* writer.rs: helpers *)

\* what an operation returned: kind and the error's fields
Ret(kind, info) == [kind |-> kind, info |-> info]

\* set_position_iterator(valid_mask, to_insert): the row offsets that get a value
set_position_iterator(valid_mask, n) ==
    IF IsSome(valid_mask)
    THEN take_while_lt(iter_set_positions(Unwrap(valid_mask)), n)
    ELSE [i \in 1..n |-> i - 1]

\* mutant: the mask is ignored, every new row is marked valid
append_valid_mask_all_set(col, valid_mask, n) == append_set(col.valid, n)

\* append_valid_mask(column, valid_mask, to_insert): the column's valid after it
append_valid_mask(col, valid_mask, n) ==
    IF IsSome(valid_mask)
    THEN append_bits(col.valid, n, Unwrap(valid_mask))
    ELSE append_set(col.valid, n)

\* mutant: the row-count assert runs before the type check
column_mut_assert_first(name, influx_type) ==
    LET columns_len == Len(columns)
        known == name \in DOMAIN column_names
        names1 == IF known THEN column_names
                  ELSE [n \in DOMAIN column_names \cup {name} |->
                           IF n = name THEN columns_len ELSE column_names[n]]
        column_idx == names1[name]
        cols1 == IF columns_len = column_idx
                 THEN Append(columns, Column_new(initial_rows, influx_type))
                 ELSE columns
        col == cols1[column_idx + 1]
    IN  IF Len(col.valid) # initial_rows
        THEN [kind |-> "panic", info |-> <<>>,
              col_idx |-> column_idx, req |-> influx_type,
              cols |-> cols1, names |-> names1]
        ELSE IF col.influx_type # influx_type
        THEN [kind |-> "TypeMismatch", info |-> <<col.influx_type, influx_type>>,
              col_idx |-> column_idx, req |-> influx_type,
              cols |-> cols1, names |-> names1]
        ELSE [kind |-> "Ok", info |-> <<>>,
              col_idx |-> column_idx, req |-> influx_type,
              cols |-> cols1, names |-> names1]

\* mutant: a new column is created with no rows
column_mut_empty_column(name, influx_type) ==
    LET columns_len == Len(columns)
        known == name \in DOMAIN column_names
        names1 == IF known THEN column_names
                  ELSE [n \in DOMAIN column_names \cup {name} |->
                           IF n = name THEN columns_len ELSE column_names[n]]
        column_idx == names1[name]
        cols1 == IF columns_len = column_idx
                 THEN Append(columns, Column_new(0, influx_type))
                 ELSE columns
        col == cols1[column_idx + 1]
    IN  IF col.influx_type # influx_type
        THEN [kind |-> "TypeMismatch", info |-> <<col.influx_type, influx_type>>,
              col_idx |-> column_idx, req |-> influx_type,
              cols |-> cols1, names |-> names1]
        ELSE IF Len(col.valid) # initial_rows
        THEN [kind |-> "panic", info |-> <<>>,
              col_idx |-> column_idx, req |-> influx_type,
              cols |-> cols1, names |-> names1]
        ELSE [kind |-> "Ok", info |-> <<>>,
              col_idx |-> column_idx, req |-> influx_type,
              cols |-> cols1, names |-> names1]

\* Writer::column_mut(name, influx_type): the outcome of column resolution.
\* kind is "Ok", "TypeMismatch" or "panic" (the assert_eq on the row count);
\* cols / names are the batch's columns and name index after the call.
column_mut(name, influx_type) ==
    LET columns_len == Len(columns)
        known == name \in DOMAIN column_names
        names1 == IF known THEN column_names
                  ELSE [n \in DOMAIN column_names \cup {name} |->
                           IF n = name THEN columns_len ELSE column_names[n]]
        column_idx == names1[name]
        cols1 == IF columns_len = column_idx
                 THEN Append(columns, Column_new(initial_rows, influx_type))
                 ELSE columns
        col == cols1[column_idx + 1]
    IN  IF col.influx_type # influx_type
        THEN [kind |-> "TypeMismatch", info |-> <<col.influx_type, influx_type>>,
              col_idx |-> column_idx, req |-> influx_type,
              cols |-> cols1, names |-> names1]
        ELSE IF Len(col.valid) # initial_rows
        THEN [kind |-> "panic", info |-> <<>>,
              col_idx |-> column_idx, req |-> influx_type,
              cols |-> cols1, names |-> names1]
        ELSE [kind |-> "Ok", info |-> <<>>,
              col_idx |-> column_idx, req |-> influx_type,
              cols |-> cols1, names |-> names1]

\* the loop of write_f64 / write_i64 / write_u64 / write_time over the set
\* positions: store each value at initial_rows + idx and fold it into stats;
\* stops with InsufficientValues when the values run out
RECURSIVE value_loop(_, _, _, _)
value_loop(col_data, stats, positions, values) ==
    IF positions = <<>>
    THEN [data |-> col_data, stats |-> stats, err |-> Ret("Ok", <<>>)]
    ELSE IF values = <<>>
    THEN [data |-> col_data, stats |-> stats, err |-> Ret("InsufficientValues", <<>>)]
    ELSE value_loop([col_data EXCEPT ![initial_rows + Head(positions) + 1] = Head(values)],
                    update(stats, Head(values)), Tail(positions), Tail(values))

\* the loop of write_bool: BitSet::set only for a true value
RECURSIVE bool_loop(_, _, _, _)
bool_loop(col_data, stats, positions, values) ==
    IF positions = <<>>
    THEN [data |-> col_data, stats |-> stats, err |-> Ret("Ok", <<>>)]
    ELSE IF values = <<>>
    THEN [data |-> col_data, stats |-> stats, err |-> Ret("InsufficientValues", <<>>)]
    ELSE bool_loop(IF Head(values) = 1
                   THEN [col_data EXCEPT ![initial_rows + Head(positions) + 1] = 1]
                   ELSE col_data,
                   update(stats, Head(values)), Tail(positions), Tail(values))

\* the loop of write_string: extend the array up to the row, then append.
\* initial_rows + idx - col_data.len() is a usize subtraction: when the array
\* is already longer than the row it underflows and the call cannot complete
RECURSIVE string_loop(_, _, _, _)
string_loop(col_data, stats, positions, values) ==
    IF positions = <<>>
    THEN [data |-> col_data, stats |-> stats, err |-> Ret("Ok", <<>>)]
    ELSE IF values = <<>>
    THEN [data |-> col_data, stats |-> stats, err |-> Ret("InsufficientValues", <<>>)]
    ELSE IF initial_rows + Head(positions) - Len(col_data) < 0
    THEN [data |-> col_data, stats |-> stats, err |-> Ret("panic", <<>>)]
    ELSE string_loop(
            Append(col_data \o Repeat(0, initial_rows + Head(positions) - Len(col_data)),
                   Head(values)),
            update(stats, Head(values)), Tail(positions), Tail(values))

\* mutant: every value is pushed as a new Dictionary entry, without lookup
RECURSIVE tag_loop_push(_, _, _, _, _)
tag_loop_push(col_data, dict, stats, positions, values) ==
    IF positions = <<>>
    THEN [data |-> col_data, dict |-> dict, stats |-> stats, err |-> Ret("Ok", <<>>)]
    ELSE IF values = <<>>
    THEN [data |-> col_data, dict |-> dict, stats |-> stats,
          err |-> Ret("InsufficientValues", <<>>)]
    ELSE tag_loop_push([col_data EXCEPT ![initial_rows + Head(positions) + 1] = Len(dict)],
                       Append(dict, Head(values)), update(stats, Head(values)),
                       Tail(positions), Tail(values))

\* the loop of write_tag: every value goes through the column's Dictionary
RECURSIVE tag_loop(_, _, _, _, _)
tag_loop(col_data, dict, stats, positions, values) ==
    IF positions = <<>>
    THEN [data |-> col_data, dict |-> dict, stats |-> stats, err |-> Ret("Ok", <<>>)]
    ELSE IF values = <<>>
    THEN [data |-> col_data, dict |-> dict, stats |-> stats,
          err |-> Ret("InsufficientValues", <<>>)]
    ELSE LET found == lookup_value_or_insert(dict, Head(values))
         IN  tag_loop([col_data EXCEPT ![initial_rows + Head(positions) + 1] = found[2]],
                      found[1], update(stats, Head(values)),
                      Tail(positions), Tail(values))

\* every value of a local table looked up or inserted, in table order
RECURSIVE insert_all(_, _)
insert_all(dict, mapping) ==
    IF mapping = <<>> THEN dict
    ELSE insert_all(lookup_value_or_insert(dict, Head(mapping)[1])[1], Tail(mapping))

\* mutant: the local table is resolved eagerly, every entry goes through the
\* Dictionary whether a key references it or not
RECURSIVE tag_dict_loop_eager(_, _, _, _, _, _)
tag_dict_loop_eager(col_data, dict, stats, positions, keys, mapping) ==
    LET all == insert_all(dict, mapping)
    IN  IF positions = <<>>
        THEN [data |-> col_data, dict |-> all, stats |-> stats, err |-> Ret("Ok", <<>>)]
        ELSE IF keys = <<>>
        THEN [data |-> col_data, dict |-> all, stats |-> stats,
              err |-> Ret("InsufficientValues", <<>>)]
        ELSE IF Head(keys) >= Len(mapping)
        THEN [data |-> col_data, dict |-> all, stats |-> stats,
              err |-> Ret("KeyNotFound", <<Head(keys)>>)]
        ELSE LET value == mapping[Head(keys) + 1][1]
             IN  tag_dict_loop_eager(
                     [col_data EXCEPT ![initial_rows + Head(positions) + 1] =
                                          code_of(all, value)],
                     all, update(stats, value), Tail(positions), Tail(keys), mapping)

\* the loop of write_tag_dict: mapping is the local table of <<value, maybe_did>>,
\* resolved lazily through the column's Dictionary
RECURSIVE tag_dict_loop(_, _, _, _, _, _)
tag_dict_loop(col_data, dict, stats, positions, keys, mapping) ==
    IF positions = <<>>
    THEN [data |-> col_data, dict |-> dict, stats |-> stats, err |-> Ret("Ok", <<>>)]
    ELSE IF keys = <<>>
    THEN [data |-> col_data, dict |-> dict, stats |-> stats,
          err |-> Ret("InsufficientValues", <<>>)]
    ELSE IF Head(keys) >= Len(mapping)
    THEN [data |-> col_data, dict |-> dict, stats |-> stats,
          err |-> Ret("KeyNotFound", <<Head(keys)>>)]
    ELSE LET key == Head(keys)
             value == mapping[key + 1][1]
             maybe_did == mapping[key + 1][2]
             row == initial_rows + Head(positions) + 1
         IN  IF IsSome(maybe_did)
             THEN tag_dict_loop([col_data EXCEPT ![row] = Unwrap(maybe_did)],
                                dict, update(stats, value),
                                Tail(positions), Tail(keys), mapping)
             ELSE LET found == lookup_value_or_insert(dict, value)
                  IN  tag_dict_loop([col_data EXCEPT ![row] = found[2]],
                                    found[1], update(stats, value),
                                    Tail(positions), Tail(keys),
                                    [mapping EXCEPT ![key + 1] = <<value, Some(found[2])>>])

----------------------------------------------------------------------------
(* writer.rs: the write methods.  Each yields the call's outcome:           *)
(* ret (what it returned, or "panic"), the batch's columns, its name index  *)
(* and the Writer's statistics after the call, and for the record the       *)
(* column position it resolved and the semantic type it asked for.          *)

Outcome(r, ret, cols, stats) ==
    [ret |-> ret, cols |-> cols, names |-> r.names, statistics |-> stats,
     col_idx |-> r.col_idx, req |-> r.req]

\* column resolution failed: TypeMismatch is returned, or the assert panicked
resolve_failed(r) == Outcome(r, Ret(r.kind, r.info), r.cols, statistics)

\* the match arm `x => unreachable!(...)`
unreachable(r) == Outcome(r, Ret("panic", <<>>), r.cols, statistics)

\* mutant: the failing call records its partial statistics all the same
loop_failed_push(r, l, dict) ==
    Outcome(r, l.err,
            [r.cols EXCEPT ![r.col_idx + 1].data = l.data, ![r.col_idx + 1].dict = dict],
            Append(statistics, <<r.col_idx, [type |-> "I64", values |-> l.stats]>>))

\* the `?` inside the loop: the error is returned, the value store keeps what
\* the loop did, validity and statistics are not touched
loop_failed(r, l, dict) ==
    Outcome(r, l.err,
            [r.cols EXCEPT ![r.col_idx + 1].data = l.data, ![r.col_idx + 1].dict = dict],
            statistics)

\* mutant: the call folds its statistics into the column's cumulative ones
finish_write_eager(r, l, dict, valid_mask, stats_type) ==
    Outcome(r, Ret("Ok", <<>>),
            [r.cols EXCEPT
                ![r.col_idx + 1].data = l.data,
                ![r.col_idx + 1].dict = dict,
                ![r.col_idx + 1].valid =
                    append_valid_mask(r.cols[r.col_idx + 1], valid_mask, to_insert),
                ![r.col_idx + 1].stats =
                    update_from(@, update_for_nulls(l.stats,
                                                    to_insert - l.stats.total_count))],
            Append(statistics,
                   <<r.col_idx,
                     [type |-> stats_type,
                      values |-> update_for_nulls(l.stats, to_insert - l.stats.total_count)]>>))

\* after the loop: append_valid_mask, update_for_nulls, statistics.push, Ok(())
finish_write(r, l, dict, valid_mask, stats_type) ==
    Outcome(r, Ret("Ok", <<>>),
            [r.cols EXCEPT
                ![r.col_idx + 1].data = l.data,
                ![r.col_idx + 1].dict = dict,
                ![r.col_idx + 1].valid =
                    append_valid_mask(r.cols[r.col_idx + 1], valid_mask, to_insert)],
            Append(statistics,
                   <<r.col_idx,
                     [type |-> stats_type,
                      values |-> update_for_nulls(l.stats, to_insert - l.stats.total_count)]>>))

\* the shape shared by write_f64, write_i64, write_u64: resize, value loop
numeric_write(name, valid_mask, values, influx_type, variant) ==
    LET r == column_mut(name, influx_type)
    IN  IF r.kind # "Ok" THEN resolve_failed(r)
        ELSE LET col == r.cols[r.col_idx + 1]
             IN  IF col.variant # variant THEN unreachable(r)
                 ELSE LET l == value_loop(resize(col.data, initial_rows + to_insert, 0),
                                          new_empty,
                                          set_position_iterator(valid_mask, to_insert),
                                          values)
                      IN  IF l.err.kind # "Ok" THEN loop_failed(r, l, col.dict)
                          ELSE finish_write(r, l, col.dict, valid_mask, variant)

write_f64(name, valid_mask, values) ==
    numeric_write(name, valid_mask, values, "Float", "F64")

write_i64(name, valid_mask, values) ==
    numeric_write(name, valid_mask, values, "Integer", "I64")

write_u64(name, valid_mask, values) ==
    numeric_write(name, valid_mask, values, "UInteger", "U64")

write_bool(name, valid_mask, values) ==
    LET r == column_mut(name, "Boolean")
    IN  IF r.kind # "Ok" THEN resolve_failed(r)
        ELSE LET col == r.cols[r.col_idx + 1]
             IN  IF col.variant # "Bool" THEN unreachable(r)
                 ELSE LET l == bool_loop(append_unset(col.data, to_insert),
                                         new_empty,
                                         set_position_iterator(valid_mask, to_insert),
                                         values)
                      IN  IF l.err.kind # "Ok" THEN loop_failed(r, l, col.dict)
                          ELSE finish_write(r, l, col.dict, valid_mask, "Bool")

write_string(name, valid_mask, values) ==
    LET r == column_mut(name, "String")
    IN  IF r.kind # "Ok" THEN resolve_failed(r)
        ELSE LET col == r.cols[r.col_idx + 1]
             IN  IF col.variant # "String" THEN unreachable(r)
                 ELSE LET l == string_loop(col.data, new_empty,
                                           set_position_iterator(valid_mask, to_insert),
                                           values)
                      IN  IF l.err.kind # "Ok" THEN loop_failed(r, l, col.dict)
                          ELSE finish_write(r, l, col.dict, valid_mask, "String")

write_tag(name, valid_mask, values) ==
    LET r == column_mut(name, "Tag")
    IN  IF r.kind # "Ok" THEN resolve_failed(r)
        ELSE LET col == r.cols[r.col_idx + 1]
             IN  IF col.variant # "Tag" THEN unreachable(r)
                 ELSE LET l == tag_loop(resize(col.data, initial_rows + to_insert, INVALID_DID),
                                        col.dict, new_empty,
                                        set_position_iterator(valid_mask, to_insert),
                                        values)
                      IN  IF l.err.kind # "Ok" THEN loop_failed(r, l, l.dict)
                          ELSE finish_write(r, l, l.dict, valid_mask, "String")

write_tag_dict(name, valid_mask, keys, values) ==
    LET r == column_mut(name, "Tag")
    IN  IF r.kind # "Ok" THEN resolve_failed(r)
        ELSE LET col == r.cols[r.col_idx + 1]
             IN  IF col.variant # "Tag" THEN unreachable(r)
                 ELSE LET mapping == [i \in DOMAIN values |-> <<values[i], None>>]
                          l == tag_dict_loop(
                                   resize(col.data, initial_rows + to_insert, INVALID_DID),
                                   col.dict, new_empty,
                                   set_position_iterator(valid_mask, to_insert),
                                   keys, mapping)
                      IN  IF l.err.kind # "Ok" THEN loop_failed(r, l, l.dict)
                          ELSE finish_write(r, l, l.dict, valid_mask, "String")

\* write_time: no mask, every one of the to_insert rows takes a value
write_time(name, values) ==
    LET r == column_mut(name, "Timestamp")
    IN  IF r.kind # "Ok" THEN resolve_failed(r)
        ELSE LET col == r.cols[r.col_idx + 1]
             IN  IF col.variant # "I64" THEN unreachable(r)
                 ELSE LET l == value_loop(resize(col.data, initial_rows + to_insert, 0),
                                          new_empty,
                                          [i \in 1..to_insert |-> i - 1],
                                          values)
                      IN  IF l.err.kind # "Ok" THEN loop_failed(r, l, col.dict)
                          ELSE finish_write(r, l, col.dict, None, "I64")

----------------------------------------------------------------------------
(* writer.rs: commit and drop *)

\* mutant: commit walks the records in the order the write calls pushed them
sort_by_push_order(s) == s

\* statistics.sort_unstable_by_key(|(col_idx, _)| *col_idx).  Two records share
\* a key only when to_insert = 0, and then commit consumes none of them.
RECURSIVE sort_by_col_idx(_)
sort_by_col_idx(s) ==
    IF s = <<>> THEN <<>>
    ELSE LET rest == sort_by_col_idx(Tail(s))
             k == Cardinality({i \in DOMAIN rest : rest[i][1] < Head(s)[1]})
         IN  SubSeq(rest, 1, k) \o <<Head(s)>> \o SubSeq(rest, k + 1, Len(rest))

\* the match on (column data variant, statistics type) in commit
stats_match(col, stats) ==
    \/ col.variant \in {"F64", "I64", "U64", "String", "Bool"} /\ stats.type = col.variant
    \/ col.variant = "Tag" /\ stats.type = "String"

\* commit's merge of one written column's statistics record
merge_statistics(col, stats) ==
    LET merged == update_from(col.stats, stats.values)
    IN  IF col.variant = "Tag"
        THEN [col EXCEPT !.stats =
                 [merged EXCEPT !.distinct_count =
                     IF merged.null_count = 0
                     THEN NonZeroU64_new(Len(col.dict))
                     ELSE NonZeroU64_new(Len(col.dict) + 1)]]
        ELSE [col EXCEPT !.stats = merged]

\* mutant: commit leaves an unwritten column as it is
pad_unwritten_skip(col, final_rows) == col

\* mutant: commit counts the padded nulls twice
pad_unwritten_twice(col, final_rows) ==
    LET padded == push_nulls_to_len(col, final_rows)
    IN  [padded EXCEPT !.stats = update_for_nulls(@, final_rows - Len(col.valid))]

\* commit, a column whose validity length is still initial_rows
pad_unwritten(col, final_rows) == push_nulls_to_len(col, final_rows)

\* commit's walk over the columns from position i - 1 on, stats being the
\* sorted records not yet consumed; panic when an assert, the unwrap or the
\* unreachable! arm fires
RECURSIVE commit_walk(_, _, _)
commit_walk(cols, i, stats) ==
    IF i > Len(cols) THEN [cols |-> cols, panic |-> FALSE]
    ELSE LET col == cols[i]
             final_rows == initial_rows + to_insert
         IN  IF Len(col.valid) = initial_rows
             THEN commit_walk([cols EXCEPT ![i] = pad_unwritten(col, final_rows)],
                              i + 1, stats)
             ELSE IF \/ Len(col.valid) # final_rows
                     \/ stats = <<>>
                     \/ Head(stats)[1] # i - 1
                     \/ ~stats_match(col, Head(stats)[2])
             THEN [cols |-> cols, panic |-> TRUE]
             ELSE commit_walk([cols EXCEPT ![i] = merge_statistics(col, Head(stats)[2])],
                              i + 1, Tail(stats))

\* mutant: the drop leaves a tag column's Dictionary as it is
rollback_column_keep_dict(col) ==
    [col EXCEPT
        !.valid = truncate(@, initial_rows),
        !.data = truncate(@, initial_rows)]

\* mutant: the drop truncates the value store and forgets the validity bitmap
rollback_column_keep_valid(col) ==
    LET col_data == truncate(col.data, initial_rows)
    IN  [col EXCEPT
            !.data = col_data,
            !.dict = IF col.variant # "Tag" THEN @
                     ELSE IF col_data # <<>> THEN dict_truncate(@, SeqMax(col_data))
                     ELSE dict_clear(@)]

\* Drop for Writer, one column: truncate validity and value store to
\* initial_rows; a tag column's Dictionary is cut to the largest retained code
rollback_column(col) ==
    LET col_data == truncate(col.data, initial_rows)
    IN  [col EXCEPT
            !.valid = truncate(@, initial_rows),
            !.data = col_data,
            !.dict = IF col.variant # "Tag" THEN @
                     ELSE IF col_data # <<>> THEN dict_truncate(@, SeqMax(col_data))
                     ELSE dict_clear(@)]

\* mutant: the drop does not look at the flag
drop_writer_always(cols, committed) ==
    [cols |-> [i \in DOMAIN cols |-> rollback_column(cols[i])], rolled_back |-> TRUE]

\* Drop for Writer: the columns after the drop of a Writer whose flag is
\* committed, and whether the truncation branch ran
drop_writer(cols, committed) ==
    IF ~committed
    THEN [cols |-> [i \in DOMAIN cols |-> rollback_column(cols[i])], rolled_back |-> TRUE]
    ELSE [cols |-> cols, rolled_back |-> FALSE]

----------------------------------------------------------------------------
(* The state machine *)

Batch == [columns |-> columns, column_names |-> column_names, row_count |-> row_count]

\* what the last operation returned, for the record: kind and info as
\* returned; for a write call the column position it resolved, the semantic
\* type it asked for, and whether it was given fewer values than it needed
Result(kind) == [kind |-> kind, info |-> <<>>, col |-> -1, req |-> "", short |-> FALSE]

Init ==
    /\ columns = <<>>
    /\ column_names = <<>>
    /\ row_count = 0
    /\ pc = "idle"
    /\ statistics = <<>>
    /\ initial_rows = 0
    /\ to_insert = 0
    /\ success = FALSE
    /\ result = Result("init")
    /\ pre = [columns |-> <<>>, column_names |-> <<>>, row_count |-> 0]
    /\ calls = 0
    /\ rolled_back = FALSE
    /\ errors = {}
    /\ log = <<>>
    /\ discarded = {}

\* Writer::new(batch, to_insert)
NewWriter(n) ==
    /\ pc = "idle"
    /\ pc' = "live"
    /\ statistics' = <<>>
    /\ initial_rows' = row_count
    /\ to_insert' = n
    /\ success' = FALSE
    /\ result' = Result("new")
    /\ pre' = Batch
    /\ calls' = 0
    /\ rolled_back' = FALSE
    /\ errors' = {}
    /\ discarded' = IF result.kind = "drop" THEN discarded ELSE {}
    /\ UNCHANGED batchVars

Recoverable == {"TypeMismatch", "InsufficientValues", "KeyNotFound"}

\* a write call with outcome o: the batch and the statistics take the call's
\* effects; a panic leaves the Writer unwinding
Written(o, short) ==
    /\ pc = "live"
    /\ columns' = o.cols
    /\ column_names' = o.names
    /\ statistics' = o.statistics
    /\ result' = [kind |-> o.ret.kind, info |-> o.ret.info, col |-> o.col_idx,
                  req |-> o.req, short |-> short]
    /\ pc' = IF o.ret.kind = "panic" THEN "panicked" ELSE "live"
    /\ calls' = calls + 1
    /\ errors' = IF o.ret.kind \in Recoverable
                 THEN errors \cup {<<o.col_idx, o.ret.kind>>}
                 ELSE errors
    /\ UNCHANGED <<row_count, initial_rows, to_insert, success, pre, rolled_back,
                   discarded>>

\* the call is given fewer values than the mask (or the dense range) needs
shortfall(valid_mask, given) == given < Len(set_position_iterator(valid_mask, to_insert))

WriteF64(name, valid_mask, values) ==
    Written(write_f64(name, valid_mask, values), shortfall(valid_mask, Len(values)))
WriteI64(name, valid_mask, values) ==
    Written(write_i64(name, valid_mask, values), shortfall(valid_mask, Len(values)))
WriteU64(name, valid_mask, values) ==
    Written(write_u64(name, valid_mask, values), shortfall(valid_mask, Len(values)))
WriteBool(name, valid_mask, values) ==
    Written(write_bool(name, valid_mask, values), shortfall(valid_mask, Len(values)))
WriteString(name, valid_mask, values) ==
    Written(write_string(name, valid_mask, values), shortfall(valid_mask, Len(values)))
WriteTag(name, valid_mask, values) ==
    Written(write_tag(name, valid_mask, values), shortfall(valid_mask, Len(values)))
WriteTagDict(name, valid_mask, keys, values) ==
    Written(write_tag_dict(name, valid_mask, keys, values),
            shortfall(valid_mask, Len(keys)))
WriteTime(name, values) ==
    Written(write_time(name, values), shortfall(None, Len(values)))

\* Writer::commit(self): the walk, row_count, success, and then the drop of
\* self at the end of the method; a panic inside leaves the Writer unwinding
Commit ==
    /\ pc = "live"
    /\ LET w == commit_walk(columns, 1, sort_by_col_idx(statistics))
       IN  IF w.panic
           THEN /\ columns' = w.cols
                /\ pc' = "panicked"
                /\ result' = Result("panic")
                /\ UNCHANGED <<row_count, success, rolled_back, statistics>>
           ELSE LET d == drop_writer(w.cols, TRUE)
                IN  /\ columns' = d.cols
                    /\ rolled_back' = d.rolled_back
                    /\ row_count' = initial_rows + to_insert
                    /\ success' = TRUE
                    /\ pc' = "idle"
                    /\ result' = Result("commit")
                    /\ statistics' = <<>>
    /\ UNCHANGED <<column_names, initial_rows, to_insert, pre, calls, errors,
                   discarded>>

\* the Dictionary entries that the live Writer's write calls have inserted:
\* the codes from the size the Dictionary had when the Writer was constructed
inserted_entries ==
    UNION {{<<i - 1, code, columns[i].dict[code + 1]>> :
               code \in (IF i <= Len(pre.columns) THEN Len(pre.columns[i].dict) ELSE 0)
                            ..(Len(columns[i].dict) - 1)} :
           i \in DOMAIN columns}

\* the Writer goes out of scope without commit (the caller drops it, or a
\* panic unwinds through it)
Drop ==
    /\ pc \in {"live", "panicked"}
    /\ LET d == drop_writer(columns, success)
       IN  /\ columns' = d.cols
           /\ rolled_back' = d.rolled_back
    /\ pc' = "idle"
    /\ result' = Result("drop")
    /\ statistics' = <<>>
    /\ discarded' = inserted_entries
    /\ UNCHANGED <<column_names, row_count, initial_rows, to_insert, success, pre,
                   calls, errors>>

----------------------------------------------------------------------------
(* Spec: every write method on the column "a"; a second column "b" is       *)
(* written as an int64 field only.                                          *)

Masks(n) == {None} \cup {Some(m) : m \in 0..(Pow2(n) - 1)}
SeqsUpTo(S, n) == UNION {[1..k -> S] : k \in 0..n}
Tables == {<<1>>, <<NumVals, 1>>}

Next ==
    \/ \E n \in 0..MaxInsert :
         row_count + n <= MaxRows /\ NewWriter(n) /\ UNCHANGED log
    \/ /\ calls < MaxCalls
       /\ UNCHANGED log
       /\ \E name \in Names :
            \/ \E valid_mask \in Masks(to_insert), values \in SeqsUpTo(Vals, to_insert) :
                 \/ WriteF64(name, valid_mask, values)
                 \/ WriteI64(name, valid_mask, values)
                 \/ WriteU64(name, valid_mask, values)
                 \/ WriteString(name, valid_mask, values)
                 \/ WriteTag(name, valid_mask, values)
            \/ \E valid_mask \in Masks(to_insert), values \in SeqsUpTo({0, 1}, to_insert) :
                 WriteBool(name, valid_mask, values)
            \/ \E valid_mask \in Masks(to_insert), keys \in SeqsUpTo({0, 1}, to_insert),
                  values \in Tables :
                 WriteTagDict(name, valid_mask, keys, values)
            \/ \E values \in SeqsUpTo(Vals, to_insert) : WriteTime(name, values)
    \/ /\ calls < MaxCalls
       /\ UNCHANGED log
       /\ \E name \in OtherNames, valid_mask \in Masks(to_insert),
             values \in SeqsUpTo({1}, to_insert) :
            WriteI64(name, valid_mask, values)
    \/ Commit /\ UNCHANGED log
    \/ Drop /\ UNCHANGED log

Spec == Init /\ [][Next]_vars

----------------------------------------------------------------------------
(* SpecTag: one tag column, more rows and more calls per Writer; log holds  *)
(* the mask and the values of the last write_tag call.                      *)

NextTag ==
    \/ \E n \in 0..MaxInsert :
         row_count + n <= TagMaxRows /\ NewWriter(n) /\ log' = <<>>
    \/ /\ calls < TagMaxCalls
       /\ \E name \in Names, valid_mask \in Masks(to_insert),
             values \in SeqsUpTo(Vals, to_insert) :
            WriteTag(name, valid_mask, values) /\ log' = <<valid_mask, values>>
    \/ /\ calls < TagMaxCalls
       /\ \E name \in Names, valid_mask \in Masks(to_insert),
             keys \in SeqsUpTo(0..NumVals, to_insert),
             values \in SeqsUpTo(Vals, NumVals) :
            WriteTagDict(name, valid_mask, keys, values) /\ log' = <<>>
    \/ Commit /\ log' = <<>>
    \/ Drop /\ log' = <<>>

SpecTag == Init /\ [][NextTag]_vars

----------------------------------------------------------------------------
(* SpecMask: one int64 column, one write_i64 call per Writer, masks of up   *)
(* to MaskRows + 1 bits, on a batch of at most MaskInitial rows; log holds  *)
(* the mask and the values of the call.                                     *)

MaskVals == {10, 20, 30}

NextMask ==
    \/ \E n \in 0..MaskRows :
         /\ row_count <= MaskInitial
         /\ row_count + n <= MaskRows
         /\ NewWriter(n)
         /\ log' = <<>>
    \/ /\ calls < 1
       /\ \E name \in Names,
             valid_mask \in {None} \cup {Some(m) : m \in 0..(Pow2(MaskRows + 1) - 1)},
             values \in SeqsUpTo(MaskVals, MaskMaxVals) :
            WriteI64(name, valid_mask, values) /\ log' = <<valid_mask, values>>
    \/ Commit /\ log' = <<>>
    \/ Drop /\ log' = <<>>

SpecMask == Init /\ [][NextMask]_vars

----------------------------------------------------------------------------
(* SpecDict: one tag column written by write_tag_dict only, with a local    *)
(* value table of DictTableLen entries in either order; log holds the       *)
(* mask, the keys and the table of the last call.                           *)

DictTables == {[i \in 1..DictTableLen |-> i],
               [i \in 1..DictTableLen |-> DictTableLen + 1 - i]}
DictKeys == {0, DictTableLen - 1, DictTableLen}

NextDict ==
    \/ \E n \in 0..MaxInsert :
         row_count + n <= DictMaxRows /\ NewWriter(n) /\ log' = <<>>
    \/ /\ calls < DictMaxCalls
       /\ \E name \in Names, valid_mask \in Masks(to_insert),
             keys \in SeqsUpTo(DictKeys, to_insert), values \in DictTables :
            WriteTagDict(name, valid_mask, keys, values)
                /\ log' = <<valid_mask, keys, values>>
    \/ Commit /\ log' = <<>>
    \/ Drop /\ log' = <<>>

SpecDict == Init /\ [][NextDict]_vars

----------------------------------------------------------------------------
(* Properties *)

\* the validity length of the column at position i (0-based) of a batch
ValidLen(cols, i) == Len(cols[i + 1].valid)

\* C1 (as claimed): after a Writer is dropped without commit the batch's
\* columns (validity, value store, Dictionary of each) and its row count are
\* what they were when the Writer was constructed
C1_Atomicity ==
    (pc = "idle" /\ result.kind = "drop" /\ rolled_back)
        => (columns = pre.columns /\ row_count = pre.row_count)

\* C2: after commit, row_count is initial_rows + to_insert and every column's
\* validity length is that same number
C2_UniformGrowth ==
    result.kind = "commit" =>
        /\ row_count = initial_rows + to_insert
        /\ \A i \in DOMAIN columns : Len(columns[i].valid) = initial_rows + to_insert

\* a commit over a batch that had rows, with a column that existed before and
\* ends in a null row and a column created and written by this Writer
C2_Witness ==
    /\ result.kind = "commit"
    /\ to_insert > 0
    /\ initial_rows > 0
    /\ Len(pre.columns) = 1
    /\ Len(columns) = 2
    /\ columns[1].valid[row_count] = 0
    /\ columns[2].valid[row_count] = 1

\* C3: whenever no Writer is live, every column's validity length is row_count
C3_BatchInvariant ==
    pc = "idle" => \A i \in DOMAIN columns : Len(columns[i].valid) = row_count

\* no Writer is live after a drop that followed a failed write call, on a
\* batch with rows, with a column created by the dropped Writer
C3_Witness ==
    /\ pc = "idle"
    /\ result.kind = "drop"
    /\ errors # {}
    /\ row_count > 0
    /\ to_insert > 0
    /\ Len(columns) > Len(pre.columns)

\* C4: a Writer is uncommitted while it lives; the flag is set by commit only;
\* the drop after commit truncates nothing, so the committed rows persist; a
\* drop without commit runs the rollback; never both, always one of the two
C4_Lifecycle ==
    /\ pc \in {"live", "panicked"} => ~success
    /\ success => result.kind = "commit"
    /\ (pc = "idle" /\ result.kind = "commit") =>
          /\ success /\ ~rolled_back
          /\ row_count = pre.row_count + to_insert
          /\ \A i \in DOMAIN columns : Len(columns[i].valid) = pre.row_count + to_insert
    /\ (pc = "idle" /\ result.kind = "drop") => (~success /\ rolled_back)

\* a committed Writer whose new row holds a value
C4_Witness ==
    /\ pc = "idle"
    /\ result.kind = "commit"
    /\ success
    /\ to_insert > 0
    /\ Len(columns) > 0
    /\ columns[1].valid[row_count] = 1

\* a step that is one write call on the live Writer
WriteStep == pc = "live" /\ calls' = calls + 1

\* C5: a write call that names a column the batch already holds under another
\* semantic type returns TypeMismatch(existing, requested) and changes neither
\* the columns (validity, value store, Dictionary), nor the name index, nor
\* the pending statistics; TypeMismatch is returned in no other case
C5_TypeMismatch ==
    [][WriteStep =>
          LET c == result'.col
              differs == c < Len(columns) /\ columns[c + 1].influx_type # result'.req
          IN  /\ differs =>
                    /\ result'.kind = "TypeMismatch"
                    /\ result'.info = <<columns[c + 1].influx_type, result'.req>>
                    /\ UNCHANGED <<columns, column_names, statistics, row_count>>
              /\ result'.kind = "TypeMismatch" => differs]_vars

\* a TypeMismatch on a column that existed, with rows, before the Writer
C5_Witness ==
    /\ pc = "live"
    /\ result.kind = "TypeMismatch"
    /\ result.col < Len(pre.columns)
    /\ initial_rows > 0
    /\ to_insert > 0

C7_KeyNotFound ==
    (pc = "idle" /\ result.kind = "drop") =>
        \A e \in errors :
            e[2] = "KeyNotFound" =>
                columns[e[1] + 1].dict =
                    IF e[1] < Len(pre.columns) THEN pre.columns[e[1] + 1].dict ELSE <<>>

\* row r (0-based) of a column, in validity/value terms: None is null
Row(col, r) == IF col.valid[r + 1] = 1 THEN Some(col.data[r + 1]) ELSE None

\* the rows a live Writer has added to a column it wrote
NewRows(col) == [p \in 1..to_insert |-> Row(col, initial_rows + p - 1)]

\* how many of the mask bits 0..p are set
Rank(mask, p) == Cardinality({q \in 0..p : Bit(mask, q) = 1})

\* the row at offset p that a mask and a value sequence call for
Expected(valid_mask, values, p) ==
    IF ~IsSome(valid_mask) THEN Some(values[p + 1])
    ELSE IF Bit(Unwrap(valid_mask), p) = 1
    THEN Some(values[Rank(Unwrap(valid_mask), p)])
    ELSE None

\* a successful write_i64 whose inputs log holds
MaskWrite == pc = "live" /\ result.kind = "Ok" /\ log # <<>>

\* C8 (amended): after a successful write_i64 the k-th value is stored at the
\* offset of the k-th set mask bit and every other new row is null; with
\* to_insert = 5, mask 0b01011 and values [10, 20, 30] the new rows are
\* [10, 20, null, 30, null]
C8_MaskFidelity ==
    MaskWrite =>
        LET col == columns[result.col + 1]
        IN  /\ \A p \in 0..(to_insert - 1) :
                   Row(col, initial_rows + p) = Expected(log[1], log[2], p)
            /\ (to_insert = 5 /\ log = <<Some(11), <<10, 20, 30>>>>) =>
                   NewRows(col) = <<Some(10), Some(20), None, Some(30), None>>

\* C8 (as claimed): with to_insert = 5, mask 0b01011 and values [10, 20, 30]
\* the new rows are [10, null, 20, 30, null]
C8_MaskFidelity_AsClaimed ==
    (MaskWrite /\ to_insert = 5 /\ log = <<Some(11), <<10, 20, 30>>>>) =>
        NewRows(columns[result.col + 1]) = <<Some(10), None, Some(20), Some(30), None>>

\* the write of the claim's example has happened
C8_Witness ==
    /\ MaskWrite
    /\ to_insert = 5
    /\ log = <<Some(11), <<10, 20, 30>>>>
    /\ NewRows(columns[result.col + 1]) = <<Some(10), Some(20), None, Some(30), None>>

\* column position i - 1 has no successful write call of the live Writer
Unwritten(i) == \A k \in DOMAIN statistics : statistics[k][1] # i - 1

\* C9: commit gives a column that the Writer did not write to_insert new rows,
\* all null, leaves its earlier rows and its Dictionary as they were (also as
\* they were before the Writer, for a column that existed then), and changes
\* its cumulative statistics only by adding to_insert to the null count
C9_NullPadding ==
    [][(pc = "live" /\ pc' = "idle" /\ result'.kind = "commit") =>
          \A i \in DOMAIN columns :
              Unwritten(i) =>
                  LET b == columns[i]
                      after == columns'[i]
                  IN  /\ after.valid = b.valid \o Repeat(0, to_insert)
                      /\ Len(b.valid) = initial_rows
                      /\ \A r \in 1..initial_rows :
                             r <= Len(b.data) => after.data[r] = b.data[r]
                      /\ after.dict = b.dict
                      /\ after.stats = [b.stats EXCEPT !.null_count = @ + to_insert]
                      /\ i <= Len(pre.columns) =>
                             /\ SubSeq(after.valid, 1, initial_rows) = pre.columns[i].valid
                             /\ \A r \in 1..initial_rows :
                                    r <= Len(pre.columns[i].data) =>
                                        after.data[r] = pre.columns[i].data[r]
                             /\ after.stats = [pre.columns[i].stats EXCEPT
                                                  !.null_count = @ + to_insert]]_vars

\* a commit where column 0 (A) got a value in its last new row and column 1
\* (B), which held a value before the Writer, got only nulls
C9_Witness ==
    /\ pc = "idle"
    /\ result.kind = "commit"
    /\ to_insert > 0
    /\ initial_rows > 0
    /\ Len(pre.columns) = 2
    /\ columns[1].valid[row_count] = 1
    /\ columns[2].valid[1] = 1
    /\ \A r \in (initial_rows + 1)..row_count : columns[2].valid[r] = 0
    /\ columns[2].stats.null_count = pre.columns[2].stats.null_count + to_insert
    /\ columns[2].stats.total_count = pre.columns[2].stats.total_count

\* C10: a successful write_tag stores for every value a code that the
\* Dictionary maps to that value, the value has a single Dictionary entry,
\* and every valid row committed by an earlier Writer that holds the same
\* value holds the same code, which it has kept
C10_DictionaryReuse ==
    (pc = "live" /\ result.kind = "Ok" /\ log # <<>>) =>
        LET col == columns[result.col + 1]
            positions == set_position_iterator(log[1], to_insert)
        IN  \A k \in DOMAIN positions :
                LET code == col.data[initial_rows + positions[k] + 1]
                    value == log[2][k]
                IN  /\ code \in 0..(Len(col.dict) - 1)
                    /\ col.dict[code + 1] = value
                    /\ Cardinality({j \in DOMAIN col.dict : col.dict[j] = value}) = 1
                    /\ result.col < Len(pre.columns) =>
                          LET was == pre.columns[result.col + 1]
                          IN  \A r \in 1..initial_rows :
                                  (was.valid[r] = 1 /\ col.dict[was.data[r] + 1] = value)
                                      => (col.data[r] = was.data[r] /\ col.data[r] = code)

\* a write_tag of a value that a valid row committed earlier already holds
C10_Witness ==
    /\ pc = "live"
    /\ result.kind = "Ok"
    /\ log # <<>>
    /\ initial_rows > 0
    /\ to_insert > 0
    /\ LET col == columns[result.col + 1]
       IN  /\ Len(col.dict) = 2
           /\ col.valid[1] = 1
           /\ col.valid[initial_rows + 1] = 1
           /\ col.data[1] = col.data[initial_rows + 1]
           /\ col.data[1] = 1

\* the Dictionary of the column at position c when the live or last Writer
\* was constructed
DictBefore(c) == IF c < Len(pre.columns) THEN pre.columns[c + 1].dict ELSE <<>>

\* the last Writer committed and the one before it was dropped
CommitAfterAbort == pc = "idle" /\ result.kind = "commit" /\ discarded # {}

Consumed(valid_mask, keys, values) ==
    LET m == Min2(Len(keys), Len(set_position_iterator(valid_mask, to_insert)))
        bad == {k \in 1..m : keys[k] >= Len(values)}
        stop == IF bad = {} THEN m ELSE (CHOOSE k \in bad : \A j \in bad : k <= j) - 1
    IN  SubSeq(keys, 1, stop)

\* the table entries those keys reference
Referenced(valid_mask, keys, values) ==
    {values[Consumed(valid_mask, keys, values)[k] + 1] :
        k \in DOMAIN Consumed(valid_mask, keys, values)}

\* the entries of a Dictionary
Entries(dict) == {dict[j] : j \in DOMAIN dict}

\* a write_tag_dict call with the inputs log' holds has returned
DictStep == WriteStep /\ Len(log') = 3 /\ result'.kind \in {"Ok"} \cup Recoverable

\* C12: a write_tag_dict call keeps the Dictionary's entries and appends
\* exactly the referenced table entries that were absent, one entry each:
\* nothing for a table entry no consumed key references; with a table of
\* DictTableLen entries and two distinct keys consumed the Dictionary gains two
\* entries if both were absent and none if both were present
C12_LazyDictWrite ==
    [][DictStep =>
          LET c == result'.col
              before == IF c < Len(columns) THEN columns[c + 1].dict ELSE <<>>
              after == columns'[c + 1].dict
              used == Referenced(log'[1], log'[2], log'[3])
              gained == Len(after) - Len(before)
          IN  /\ gained >= 0
              /\ SubSeq(after, 1, Len(before)) = before
              /\ {after[j] : j \in (Len(before) + 1)..Len(after)} = used \ Entries(before)
              /\ gained = Cardinality(used \ Entries(before))
              /\ (Len(log'[3]) = DictTableLen /\ Cardinality(used) = 2) =>
                     /\ used \cap Entries(before) = {} => gained = 2
                     /\ used \subseteq Entries(before) => gained = 0]_vars

\* a call with the full table and two distinct keys on a column whose
\* Dictionary was empty has added exactly the two referenced entries
C12_Witness ==
    /\ pc = "live"
    /\ result.kind = "Ok"
    /\ Len(log) = 3
    /\ calls = 1
    /\ Len(log[3]) = DictTableLen
    /\ Cardinality(Referenced(log[1], log[2], log[3])) = 2
    /\ DictBefore(result.col) = <<>>
    /\ Len(columns[result.col + 1].dict) = 2

\* C13: a step changes the cumulative statistics of a column only if it is
\* commit (no write call, no construction, no drop does), and the drop of an
\* uncommitted Writer leaves every column that existed before the Writer
\* with the cumulative statistics it had then
C13_DeferredStatistics ==
    [][/\ (\E i \in DOMAIN columns : columns'[i].stats # columns[i].stats) =>
              (pc = "live" /\ calls' = calls /\ result'.kind \in {"commit", "panic"})
       /\ (pc # "idle" /\ result'.kind = "drop") =>
              \A i \in DOMAIN pre.columns : columns'[i].stats = pre.columns[i].stats]_vars

\* a Writer holds a pending record with a value for a column that had values
\* before, and the column's cumulative statistics are still the earlier ones
C13_Witness ==
    /\ pc = "live"
    /\ statistics # <<>>
    /\ statistics[1][2].values.total_count > 0
    /\ statistics[1][1] < Len(pre.columns)
    /\ pre.columns[statistics[1][1] + 1].stats.total_count > 0
    /\ columns[statistics[1][1] + 1].stats = pre.columns[statistics[1][1] + 1].stats

\* C14 (as claimed): the Writer's statistics never hold two records for the
\* same column position, because a write call to a column that has a record
\* never returns
C14_OneWritePerColumn ==
    /\ \A j, k \in DOMAIN statistics :
           j # k => statistics[j][1] # statistics[k][1]
    /\ (pc = "live" /\ result.kind \in {"Ok"} \cup Recoverable) =>
           Cardinality({k \in DOMAIN statistics : statistics[k][1] = result.col}) <= 1

\* C15 (as claimed): after a commit every tag column's cumulative
\* distinct_count is its Dictionary size, plus one if its cumulative null
\* count is not zero
C15_TagDistinctCount ==
    (pc = "idle" /\ result.kind = "commit") =>
        \A i \in DOMAIN columns :
            columns[i].variant = "Tag" =>
                columns[i].stats.distinct_count =
                    NonZeroU64_new(Len(columns[i].dict)
                                   + IF columns[i].stats.null_count = 0 THEN 0 ELSE 1)

\* an uncommitted Writer that created a column has been dropped
DroppedWithNewColumn ==
    pc = "idle" /\ result.kind = "drop" /\ Len(columns) > Len(pre.columns)

\* the column at position i - 1 is registered under one name, and the names
\* known before the Writer kept their positions
Registered(i) ==
    /\ Cardinality({n \in DOMAIN column_names : column_names[n] = i - 1}) = 1
    /\ \A n \in DOMAIN pre.column_names : column_names[n] = pre.column_names[n]

\* C16 (as claimed): after the drop a column the Writer created has zero
\* rows, and stays registered at its position
C16_NewColumnOnAbort_AsClaimed ==
    DroppedWithNewColumn =>
        \A i \in (Len(pre.columns) + 1)..Len(columns) :
            Len(columns[i].valid) = 0 /\ Registered(i)

\* C16 (amended): after the drop a column the Writer created has
\* initial_rows rows, all null (zero rows only if initial_rows = 0), and
\* stays registered at its position
C16_NewColumnOnAbort ==
    DroppedWithNewColumn =>
        \A i \in (Len(pre.columns) + 1)..Len(columns) :
            /\ columns[i].valid = Repeat(0, initial_rows)
            /\ initial_rows = pre.row_count
            /\ Registered(i)

\* a Writer on a batch that had rows created a column and was dropped
C16_Witness ==
    /\ DroppedWithNewColumn
    /\ pre.row_count > 0
    /\ Len(pre.columns) > 0
    /\ Len(columns[Len(columns)].valid) = pre.row_count

\* C17: in a successful write_tag or write_tag_dict call, a value that is
\* new to the Dictionary gets a code larger than the code of every value at
\* an earlier row of the call: new codes rise in the order of first use by
\* row offset, whatever the order of the values or of the local table
C17_CodeAssignmentOrder ==
    [][(WriteStep /\ result'.kind = "Ok" /\ result'.req = "Tag") =>
          LET c == result'.col
              before == IF c < Len(columns) THEN columns[c + 1].dict ELSE <<>>
              col == columns'[c + 1]
              rows == {r \in (initial_rows + 1)..(initial_rows + to_insert) :
                          col.valid[r] = 1}
              first == {r \in rows : \A q \in rows : q < r => col.data[q] # col.data[r]}
          IN  /\ \A r \in rows : col.data[r] \in 0..(Len(col.dict) - 1)
              /\ \A r \in first :
                     col.data[r] >= Len(before) =>
                         \A q \in rows : q < r => col.data[q] < col.data[r]
              /\ {col.data[r] : r \in {q \in first : col.data[q] >= Len(before)}}
                     = Len(before)..(Len(col.dict) - 1)]_vars

\* a call has given two new values rising codes by row although the later
\* row's value is the smaller one
C17_Witness ==
    /\ pc = "live"
    /\ result.kind = "Ok"
    /\ calls = 1
    /\ to_insert = 2
    /\ LET col == columns[result.col + 1]
       IN  /\ col.valid[initial_rows + 1] = 1
           /\ col.valid[initial_rows + 2] = 1
           /\ col.data[initial_rows + 1] >= Len(DictBefore(result.col))
           /\ col.data[initial_rows + 1] < col.data[initial_rows + 2]
           /\ col.dict[col.data[initial_rows + 1] + 1] > col.dict[col.data[initial_rows + 2] + 1]

\* the positions (1-based) of the columns a live Writer has grown
Grown == {i \in DOMAIN columns : Len(columns[i].valid) # initial_rows}

\* C18: while a Writer is live and no call has panicked, every column's
\* validity length is initial_rows or initial_rows + to_insert, every grown
\* column has exactly one statistics record, of the type of its storage
\* variant, there is no record for another column when to_insert > 0, and
\* commit itself never panics
C18_CommitNeverFatal ==
    /\ pc = "live" =>
          /\ \A i \in DOMAIN columns :
                 Len(columns[i].valid) \in {initial_rows, initial_rows + to_insert}
          /\ \A i \in Grown :
                 /\ Cardinality({k \in DOMAIN statistics : statistics[k][1] = i - 1}) = 1
                 /\ \A k \in DOMAIN statistics :
                        statistics[k][1] = i - 1 =>
                            statistics[k][2].type =
                                IF columns[i].variant = "Tag" THEN "String"
                                ELSE columns[i].variant
          /\ to_insert > 0 => \A k \in DOMAIN statistics : statistics[k][1] + 1 \in Grown
    /\ ~(pc = "panicked" /\ result.kind = "panic" /\ result.col = -1)

\* a Writer committed after a write call to one column returned a
\* recoverable error and a write call to the other column succeeded
C18_Witness ==
    /\ pc = "idle"
    /\ result.kind = "commit"
    /\ to_insert > 0
    /\ Len(columns) = 2
    /\ \E e \in errors :
           /\ e[2] = "InsufficientValues"
           /\ columns[e[1] + 1].valid[row_count] = 0
           /\ columns[2 - e[1]].valid[row_count] = 1

\* the value a column holds at row r (1-based): a tag column's code decoded
ValueAt(col, r) == IF col.variant = "Tag" THEN col.dict[col.data[r] + 1] ELSE col.data[r]

\* C19 (as claimed): a write call to a column for which an earlier call of
\* the Writer returned InsufficientValues or KeyNotFound, and which has no
\* successful write yet, is accepted (it does not panic), and if it returns
\* Ok the column's valid new rows are as many as the call's values and lie
\* within the minimum and maximum of the call's values: nothing of the
\* failed attempt shows at a valid row
C19_RetryAfterFailedWrite ==
    [][(/\ WriteStep
        /\ Unwritten(result'.col + 1)
        /\ \E e \in errors :
               e[1] = result'.col /\ e[2] \in {"InsufficientValues", "KeyNotFound"}) =>
          /\ result'.kind # "panic"
          /\ result'.kind = "Ok" =>
                LET col == columns'[result'.col + 1]
                    rec == statistics'[Len(statistics')][2].values
                    rows == {r \in (initial_rows + 1)..(initial_rows + to_insert) :
                                col.valid[r] = 1}
                IN  /\ Cardinality(rows) = rec.total_count
                    /\ \A r \in rows :
                           /\ Unwrap(rec.min) <= ValueAt(col, r)
                           /\ ValueAt(col, r) <= Unwrap(rec.max)]_vars

\* C20 (as claimed): after a commit every column's value store has exactly
\* row_count entries, as its validity bitmap has
C20_ValueStoreTracksValidity ==
    (pc = "idle" /\ result.kind = "commit") =>
        \A i \in DOMAIN columns :
            /\ Len(columns[i].valid) = row_count
            /\ Len(columns[i].data) = row_count

\* C21 (as claimed): whenever no Writer is live, every code of a tag
\* column's Dictionary is stored in at least one entry of the column's code
\* array: the largest stored code is the Dictionary size minus one, and the
\* Dictionary is empty when the code array holds no code
C21_DictionaryDensity ==
    pc = "idle" =>
        \A i \in DOMAIN columns :
            columns[i].variant = "Tag" =>
                LET col == columns[i]
                    stored == {col.data[r] : r \in DOMAIN col.data} \ {INVALID_DID}
                IN  /\ \A code \in 0..(Len(col.dict) - 1) : code \in stored
                    /\ stored = {} => col.dict = <<>>
                    /\ stored # {} =>
                           \A code \in stored :
                               (\A other \in stored : other <= code) =>
                                   code = Len(col.dict) - 1

====
